---- MODULE Spec2Model ----
(***************************************************************************)
(* Model of OutlierManager (src/src/outlier_detection.py): the column-wise *)
(* detectors (SD, IQR, univariate isolation forest, Generalized ESD), the  *)
(* multivariate isolation forest and the summary aggregator.               *)
(*                                                                         *)
(* Conventions.                                                            *)
(*  - Cell values of numeric columns are integers, so the sums, means and  *)
(*    quantiles the code computes in floating point are exact; every       *)
(*    comparison of the code is modelled by the equivalent comparison of   *)
(*    integers (both sides multiplied by the common denominator).          *)
(*  - Positions are 1-based here; position p is numpy position p-1.        *)
(*  - A mask cell is "True", "False" or "NaN" (a null cell).               *)
(*  - The fitted isolation forests and the Student-t quantile are          *)
(*    external; what they return is an input of the call.                  *)
(***************************************************************************)
EXTENDS Integers, Sequences, FiniteSets

VARIABLES df, call, ret, locals

vars == <<df, call, ret, locals>>

-----------------------------------------------------------------------------
(* Bounds of the model *)

MaxRows == 4

MaxAnomalies == 3

Values == {0, 1, 2}

-----------------------------------------------------------------------------
(* Arithmetic helpers *)

Abs(x) == IF x < 0 THEN -x ELSE x

RECURSIVE SumSeq(_)
SumSeq(s) == IF s = <<>> THEN 0 ELSE Head(s) + SumSeq(Tail(s))

SumSquares(s) == SumSeq([i \in 1..Len(s) |-> s[i] * s[i]])

RECURSIVE Insert(_, _)
Insert(x, s) ==
    IF s = <<>> THEN <<x>>
    ELSE IF x <= Head(s) THEN <<x>> \o s
    ELSE <<Head(s)>> \o Insert(x, Tail(s))

RECURSIVE Sort(_)
Sort(s) == IF s = <<>> THEN <<>> ELSE Insert(Head(s), Sort(Tail(s)))

\* lhs > k * sqrt(d), for integers lhs, k and d >= 0
GtRoot(lhs, k, d) ==
    IF k >= 0 \/ d = 0
    THEN lhs > 0 /\ lhs * lhs > k * k * d
    ELSE lhs >= 0 \/ lhs * lhs < k * k * d

-----------------------------------------------------------------------------
(* Tables *)

RowKeys(n, off) == [i \in 1..n |-> off + i - 1]

Column(name, numeric, values) ==
    [name |-> name, numeric |-> numeric, values |-> values]

GenericTables ==
    UNION { { [index |-> RowKeys(n, 0),
               columns |-> << Column("a", TRUE, v),
                              Column("s", FALSE, [i \in 1..n |-> "x"]) >>] :
                v \in [1..n -> Values] } :
            n \in 1..MaxRows }

ExampleTables ==
    { [index |-> RowKeys(5, 0),
       columns |-> << Column("a", TRUE, <<1, 2, 3, 4, 100>>) >>],
      [index |-> RowKeys(7, 0),
       columns |-> << Column("a", TRUE, <<10, 11, 9, 10, 11, 9, 1000>>) >>],
      [index |-> RowKeys(7, 0),
       columns |-> << Column("a", TRUE, <<0, 0, 0, 0, 0, 50, 100>>) >>],
      [index |-> RowKeys(5, 0),
       columns |-> << Column("a", TRUE, <<0, 1, 1, 1, 2>>) >>],
      [index |-> RowKeys(3, 10),
       columns |-> << Column("a", TRUE, <<0, 1, 5>>),
                      Column("s", FALSE, <<"x", "y", "z">>),
                      Column("b", TRUE, <<2, 2, 2>>) >>],
      [index |-> RowKeys(3, 0),
       columns |-> << Column("a", TRUE, <<0, 1, 5>>),
                      Column("b", TRUE, <<2, 2, 2>>),
                      Column("c", TRUE, <<3, 1, 2>>) >>] }

Tables == UNION {GenericTables, ExampleTables}

\* df.select_dtypes(include=np.number).columns
numeric_cols(d) == SelectSeq(d.columns, LAMBDA c : c.numeric)

NRows(d) == Len(d.index)

\* pd.DataFrame(columns=numeric_cols, index=df.index) with every column assigned
MaskFrame(d, cells) ==
    [index |-> d.index,
     columns |-> [j \in 1..Len(numeric_cols(d)) |->
                    [name |-> numeric_cols(d)[j].name, values |-> cells[j]]]]

Bool(b) == IF b THEN "True" ELSE "False"

NoMask == [index |-> <<>>, columns |-> <<>>]

\* what a call leaves behind besides its result: the per-column state of the
\* Generalized ESD loop, the number of columns scaled and of models fitted,
\* the labels the fitted models predicted, and the masks summary collected
\* (outliers_iqr, outliers_sd, outliers_isolation_forest,
\* outliers_generalized_esd, in this order)
NoLocals ==
    [esd |-> <<>>, scaled |-> 0, fitted |-> 0, pred |-> <<>>, masks |-> <<>>]

NoCall == [op |-> "none"]

NoResult == [kind |-> "none", error |-> "", mask |-> NoMask, report |-> <<>>]

\* no call is in progress and no result is held: the manager keeps no state
\* between calls
Idle == call.op = "none"

Returned(m) == [kind |-> "mask", error |-> "", mask |-> m, report |-> <<>>]

Raised(e) == [kind |-> "error", error |-> e, mask |-> NoMask, report |-> <<>>]

-----------------------------------------------------------------------------
(* detect_outlier_sd *)

SdMultiples == {-1, 0, 1, 2, 3}

\* SdOutlier with >= and <= for > and <
SdOutlierNonStrict(ts, sd_multiple, i) ==
    LET n == Len(ts)
        s == SumSeq(ts)
        d == n * SumSquares(ts) - s * s
    IN  \/ ~GtRoot(s - n * ts[i], -sd_multiple, d)
        \/ ~GtRoot(n * ts[i] - s, -sd_multiple, d)

\* (ts > mean + sd_multiple*std) | (ts < mean - sd_multiple*std), at position i;
\* with n = len(ts): n*mean = sum, (n*std)^2 = n*sum(x^2) - sum^2
SdOutlier(ts, sd_multiple, i) ==
    LET n == Len(ts)
        s == SumSeq(ts)
        d == n * SumSquares(ts) - s * s
    IN  \/ GtRoot(n * ts[i] - s, sd_multiple, d)
        \/ GtRoot(s - n * ts[i], sd_multiple, d)

SdMask(d, sd_multiple) ==
    MaskFrame(d, [j \in 1..Len(numeric_cols(d)) |->
        LET ts == numeric_cols(d)[j].values
        IN  [i \in 1..Len(ts) |-> Bool(SdOutlier(ts, sd_multiple, i))]])

detect_outlier_sd ==
    /\ Idle
    /\ \E k \in SdMultiples :
        /\ call' = [op |-> "sd", sd_multiple |-> k]
        /\ ret' = Returned(SdMask(df, k))
        /\ locals' = NoLocals
        /\ UNCHANGED df

-----------------------------------------------------------------------------
(* detect_outlier_iqr *)

\* iqr_multiple, in halves: 0, 1, 1.5, 3
IqrMultiples2 == {0, 2, 3, 6}

\* Quantile4 without the interpolation (the lower neighbour)
Quantile4Lower(ts, q4) == 4 * Sort(ts)[((Len(ts) - 1) * q4) \div 4 + 1]

\* 4 * np.quantile(ts, q4/4): linear interpolation at virtual index (n-1)*q4/4
Quantile4(ts, q4) ==
    LET s == Sort(ts)
        h == (Len(ts) - 1) * q4
        j == h \div 4
        r == h % 4
    IN  IF r = 0 THEN 4 * s[j + 1]
        ELSE 4 * s[j + 1] + r * (s[j + 2] - s[j + 1])

\* IqrOutlier with the case iqr = 0 turned into "no outlier"
IqrOutlierGuarded(ts, iqr_multiple2, i) ==
    LET q1 == Quantile4(ts, 1)
        q3 == Quantile4(ts, 3)
        iqr == q3 - q1
    IN  /\ iqr # 0
        /\ \/ 8 * ts[i] > 2 * q3 + iqr_multiple2 * iqr
           \/ 8 * ts[i] < 2 * q1 - iqr_multiple2 * iqr

\* (ts > q3 + iqr_multiple*iqr) | (ts < q1 - iqr_multiple*iqr), at position i
IqrOutlier(ts, iqr_multiple2, i) ==
    LET q1 == Quantile4(ts, 1)
        q3 == Quantile4(ts, 3)
        iqr == q3 - q1
    IN  \/ 8 * ts[i] > 2 * q3 + iqr_multiple2 * iqr
        \/ 8 * ts[i] < 2 * q1 - iqr_multiple2 * iqr

IqrMask(d, iqr_multiple2) ==
    MaskFrame(d, [j \in 1..Len(numeric_cols(d)) |->
        LET ts == numeric_cols(d)[j].values
        IN  [i \in 1..Len(ts) |-> Bool(IqrOutlier(ts, iqr_multiple2, i))]])

detect_outlier_iqr ==
    /\ Idle
    /\ \E m2 \in IqrMultiples2 :
        /\ call' = [op |-> "iqr", iqr_multiple2 |-> m2]
        /\ ret' = Returned(IqrMask(df, m2))
        /\ locals' = NoLocals
        /\ UNCHANGED df

-----------------------------------------------------------------------------
(* detect_outlier_isolation_forest *)

Str(s) == [kind |-> "str", s |-> s, x100 |-> 0]

Num(x100) == [kind |-> "num", s |-> "", x100 |-> x100]

\* outlier_fraction: a string, or a number given in hundredths
FractionInputs ==
    {Str("auto"), Str("scale")} \cup {Num(x) : x \in {-10, 0, 25, 50, 60}}

\* FractionAccepted with the upper limit 1 for 0.5
FractionAcceptedToOne(outlier_fraction) ==
    IF outlier_fraction.kind = "str"
    THEN outlier_fraction.s = "auto"
    ELSE outlier_fraction.x100 >= 0 /\ outlier_fraction.x100 <= 100

\* the two asserts on outlier_fraction
FractionAccepted(outlier_fraction) ==
    IF outlier_fraction.kind = "str"
    THEN outlier_fraction.s = "auto"
    ELSE outlier_fraction.x100 >= 0 /\ outlier_fraction.x100 <= 50

\* IsolationForest's own check of contamination at fit: 'auto' or in (0, 0.5]
ContaminationFits(contamination) ==
    IF contamination.kind = "str"
    THEN contamination.s = "auto"
    ELSE contamination.x100 > 0 /\ contamination.x100 <= 50

\* the labels a fitted model can predict for n rows: 1 inlier, -1 anomaly
Labels(n) == [1..n -> {1, -1}]

\* np.clip(pred, a_min=0, a_max=None)
Clip0(x) == IF x < 0 THEN 0 ELSE x

\* (1 - np.clip(pred, 0, None)).astype(bool)
IsoCell(label) == Bool(1 - Clip0(label) # 0)

IsoMask(d, pred) ==
    MaskFrame(d, [j \in 1..Len(numeric_cols(d)) |->
        [i \in 1..NRows(d) |-> IsoCell(pred[j][i])]])

\* the result and the locals of the call, for the labels pred of the models
IsoRun(d, outlier_fraction, pred) ==
    IF ~FractionAccepted(outlier_fraction)
    THEN [ret |-> Raised("AssertionError"), locals |-> NoLocals]
    ELSE IF Len(numeric_cols(d)) > 0 /\ ~ContaminationFits(outlier_fraction)
    THEN [ret |-> Raised("ModelFitError"),
          locals |-> [NoLocals EXCEPT !.scaled = 1]]
    ELSE [ret |-> Returned(IsoMask(d, pred)),
          locals |-> [NoLocals EXCEPT !.scaled = Len(numeric_cols(d)),
                                      !.fitted = Len(numeric_cols(d)),
                                      !.pred = pred]]

detect_outlier_isolation_forest ==
    /\ Idle
    /\ \E f \in FractionInputs :
      \E pred \in [1..Len(numeric_cols(df)) -> Labels(NRows(df))] :
        /\ call' = [op |-> "iso", outlier_fraction |-> f]
        /\ \E run \in {IsoRun(df, f, pred)} :
              /\ ret' = run.ret
              /\ locals' = run.locals
        /\ UNCHANGED df

-----------------------------------------------------------------------------
(* detect_outlier_generalized_esd *)

\* alpha, in hundredths
AlphaInputs == {-5, 0, 5, 100, 300}

\* np.ma.array(ts): the column's values (the buffer is the column's own, no
\* copy is made) and a mask, nothing masked yet
MaskedArray(values) ==
    [data |-> values, mask |-> [i \in 1..Len(values) |-> FALSE]]

Active(ts) == {i \in 1..Len(ts.data) : ~ts.mask[i]}

\* the values that are not masked, in position order
RECURSIVE Compressed(_, _)
Compressed(ts, k) ==
    IF k > Len(ts.data) THEN <<>>
    ELSE IF ts.mask[k] THEN Compressed(ts, k + 1)
    ELSE <<ts.data[k]>> \o Compressed(ts, k + 1)

\* 2 * np.ma.median of a non-empty sequence
Median2(values) ==
    LET s == Sort(values)
        n == Len(s)
    IN  IF n % 2 = 1 THEN 2 * s[(n + 1) \div 2]
        ELSE s[n \div 2] + s[n \div 2 + 1]

\* the numerators of the scores, over a denominator common to all positions:
\* |x - median| in halves when hybrid, else |x - mean| in 1/count
Deviations(ts, hybrid) ==
    LET x == Compressed(ts, 1)
        centre == IF x = <<>> THEN 0
                  ELSE IF hybrid THEN Median2(x) ELSE SumSeq(x)
        scale == IF hybrid THEN 2 ELSE Len(x)
    IN  CHOOSE dev \in { [i \in 1..Len(ts.data) |->
                            IF ts.mask[i] THEN 0
                            ELSE Abs(scale * ts.data[i] - c)] :
                         c \in {centre} } : TRUE

\* the scores are all masked: no value is left, or the divisor (mad when
\* hybrid, else std) is 0 and the masked division masks every quotient
ScoresMasked(ts, hybrid, dev) ==
    \/ Active(ts) = {}
    \/ IF hybrid
       THEN Median2(Compressed([data |-> dev, mask |-> ts.mask], 1)) = 0
       ELSE \A i \in Active(ts) : dev[i] = 0

\* ArgMax that takes the last position of the largest unmasked score
ArgMaxLast(ts, hybrid, dev) ==
    IF ScoresMasked(ts, hybrid, dev) THEN 1
    ELSE CHOOSE i \in Active(ts) :
            /\ \A j \in Active(ts) : dev[j] <= dev[i]
            /\ \A j \in Active(ts) : dev[j] = dev[i] => j <= i

\* np.argmax(scores): the first position of the largest unmasked score;
\* position 1 (numpy's 0) when every score is masked
ArgMax(ts, hybrid, dev) ==
    IF ScoresMasked(ts, hybrid, dev) THEN 1
    ELSE CHOOSE i \in Active(ts) :
            /\ \A j \in Active(ts) : dev[j] <= dev[i]
            /\ \A j \in Active(ts) : dev[j] = dev[i] => i <= j

\* max_idx and whether scores[max_idx] is the masked constant
calculate_test_statistic(ts, hybrid) ==
    CHOOSE stat \in { [idx |-> ArgMax(ts, hybrid, dev),
                       masked |-> ScoresMasked(ts, hybrid, dev)] :
                      dev \in {Deviations(ts, hybrid)} } : TRUE

\* test_val > calculate_critical_value(size, alpha), for size > 0.  With
\* q = 1 - alpha/(2*size) and size-2 degrees of freedom the quantile is nan
\* unless size > 2 and 0 < q < 1, and a comparison with nan or of the masked
\* constant is false; for q <= 1/2 the critical value is <= 0 and every
\* unmasked score exceeds it; otherwise the quantile decides (exceeds).
TestPasses(masked, size, alpha100, exceeds) ==
    /\ ~masked
    /\ size > 2
    /\ alpha100 > 0
    /\ alpha100 < 200 * size
    /\ (alpha100 >= 100 * size \/ exceeds)

\* SetMasked that also overwrites the value (ts[test_idx] = 0 on the buffer)
SetMaskedOverwrite(ts, test_idx) ==
    [ts EXCEPT !.mask[test_idx] = TRUE, !.data[test_idx] = 0]

\* ts[test_idx] = np.ma.masked: sets the mask and leaves the data
SetMasked(ts, test_idx) == [ts EXCEPT !.mask[test_idx] = TRUE]

\* one iteration: the candidate is recorded and masked whether or not the
\* test passed; num_outliers becomes curr when it passed
EsdStep(st, curr, stat, pass) ==
    [ts |-> SetMasked(st.ts, stat.idx),
     test_statistics |-> Append(st.test_statistics, stat.idx),
     num_outliers |-> IF pass THEN curr ELSE st.num_outliers,
     passed |-> Append(st.passed, pass),
     sizes |-> Append(st.sizes, Len(st.ts.data) - curr),
     error |-> FALSE]

\* the loop over curr in range(max_anomalies), from iteration curr on: the
\* states it can end in, one for each way the quantile can decide the tests.
\* The size passed on is len(ts) - curr, and alpha / (2 * size) raises
\* ZeroDivisionError at size 0 (after the test statistic was computed)
RECURSIVE EsdLoop(_, _, _, _, _)
EsdLoop(st, curr, max_anomalies, alpha100, hybrid) ==
    IF curr >= max_anomalies \/ st.error THEN {st}
    ELSE IF Len(st.ts.data) - curr = 0 THEN {[st EXCEPT !.error = TRUE]}
    ELSE UNION { EsdLoop(next, curr + 1, max_anomalies, alpha100, hybrid) :
                 next \in UNION {
                    { EsdStep(st, curr, stat,
                              TestPasses(stat.masked, Len(st.ts.data) - curr,
                                         alpha100, exceeds)) :
                      exceeds \in BOOLEAN } :
                    stat \in {calculate_test_statistic(st.ts, hybrid)} } }

\* the loop of one column, from ts = np.ma.array(values), test_statistics = []
\* and num_outliers = 0
EsdColumn(values, max_anomalies, alpha100, hybrid) ==
    EsdLoop([ts |-> MaskedArray(values), test_statistics |-> <<>>,
             num_outliers |-> 0, passed |-> <<>>, sizes |-> <<>>,
             error |-> FALSE],
            0, max_anomalies, alpha100, hybrid)

\* the sequences that take their k-th element from the k-th set
RECURSIVE Product(_)
Product(sets) ==
    IF sets = <<>> THEN {<<>>}
    ELSE { <<x>> \o rest : x \in Head(sets), rest \in Product(Tail(sets)) }

\* the loops of the numeric columns, one end state for each column
EsdLoops(d, max_anomalies, alpha100, hybrid) ==
    Product([j \in 1..Len(numeric_cols(d)) |->
                EsdColumn(numeric_cols(d)[j].values, max_anomalies, alpha100,
                          hybrid)])

\* test_statistics[: num_outliers + 1] if num_outliers > 0 else []
anomalous_indices(st) ==
    IF st.num_outliers > 0
    THEN SubSeq(st.test_statistics, 1, st.num_outliers + 1)
    ELSE <<>>

\* outlier_mask = np.zeros_like(ts) keeps the mask of ts; assigning 1 at the
\* anomalous indices unmasks them; astype(bool) keeps the mask; stored in the
\* frame, a cell that is still masked becomes a null cell
EsdCells(st) ==
    LET hit == {anomalous_indices(st)[k] : k \in 1..Len(anomalous_indices(st))}
    IN  [i \in 1..Len(st.ts.data) |->
            IF i \in hit THEN "True"
            ELSE IF st.ts.mask[i] THEN "NaN"
            ELSE "False"]

\* how many of the columns 1..k of the table are numeric
NumericRank(d, k) == Cardinality({i \in 1..k : d.columns[i].numeric})

\* the table after the call: each numeric column holds the buffer its working
\* array ended with
WriteBack(d, loops) ==
    [d EXCEPT !.columns = [k \in 1..Len(d.columns) |->
        IF d.columns[k].numeric /\ NumericRank(d, k) <= Len(loops)
        THEN [d.columns[k] EXCEPT !.values = loops[NumericRank(d, k)].ts.data]
        ELSE d.columns[k]]]

\* the call, given the end states of the columns' loops: the first column's
\* error ends the call (every column has the same number of rows)
EsdRun(d, loops) ==
    IF Len(loops) > 0 /\ loops[1].error
    THEN [ret |-> Raised("ZeroDivisionError"),
          locals |-> [NoLocals EXCEPT !.esd = <<loops[1]>>],
          df |-> WriteBack(d, <<loops[1]>>)]
    ELSE [ret |-> Returned(MaskFrame(d, [j \in 1..Len(loops) |->
                                            EsdCells(loops[j])])),
          locals |-> [NoLocals EXCEPT !.esd = loops],
          df |-> WriteBack(d, loops)]

detect_outlier_generalized_esd ==
    /\ Idle
    /\ \E m \in 0..MaxAnomalies, a \in AlphaInputs, h \in BOOLEAN :
       \E loops \in EsdLoops(df, m, a, h) :
       \E run \in {EsdRun(df, loops)} :
        /\ call' = [op |-> "esd", max_anomalies |-> m, alpha100 |-> a,
                    hybrid |-> h]
        /\ ret' = run.ret
        /\ locals' = run.locals
        /\ df' = run.df

-----------------------------------------------------------------------------
(* detect_outlier_multivariable_isolation_forest *)

\* contaminacion, in hundredths (default 0.01)
Contaminations == {0, 1}

\* n_components of the PCA behind plot=True
PcaComponents == 3

\* df[numeric_cols].copy()
CopyNumeric(d) == [index |-> d.index, columns |-> numeric_cols(d)]

\* df_anomaly['MULTIVARIABLE_ISO_FOREST_<contaminacion>'] = outliers
WithColumn(d, name, values) ==
    [d EXCEPT !.columns = Append(@, [name |-> name, values |-> values])]

\* value_counts()[-1]: a lookup by label, a KeyError when no row is labelled -1
HasAnomaly(outliers) == \E i \in 1..Len(outliers) : outliers[i] = -1

\* .apply(lambda x: True if x==-1 else False).to_frame()
MultiMask(d, outliers) ==
    LET df_anomaly == WithColumn(CopyNumeric(d), "MULTIVARIABLE_ISO_FOREST", outliers)
        col == df_anomaly.columns[Len(df_anomaly.columns)]
    IN  [index |-> df_anomaly.index,
         columns |-> << [name |-> col.name,
                         values |-> [i \in 1..Len(col.values) |->
                                        Bool(col.values[i] = -1)]] >>]

MultiRun(d, contaminacion, plot, outliers) ==
    IF ~ContaminationFits(Num(contaminacion))
    THEN [ret |-> Raised("ModelFitError"), locals |-> NoLocals]
    ELSE IF ~HasAnomaly(outliers)
    THEN [ret |-> Raised("KeyError"),
          locals |-> [NoLocals EXCEPT !.fitted = 1, !.pred = <<outliers>>]]
    ELSE IF plot /\ (NRows(d) < PcaComponents
                     \/ Len(numeric_cols(d)) < PcaComponents)
    THEN [ret |-> Raised("ValueError"),
          locals |-> [NoLocals EXCEPT !.fitted = 1, !.scaled = 1,
                                      !.pred = <<outliers>>]]
    ELSE [ret |-> Returned(MultiMask(d, outliers)),
          locals |-> [NoLocals EXCEPT !.fitted = 1,
                                      !.scaled = IF plot THEN 1 ELSE 0,
                                      !.pred = <<outliers>>]]

detect_outlier_multivariable_isolation_forest ==
    /\ Idle
    /\ \E c \in Contaminations, plot \in BOOLEAN, outliers \in Labels(NRows(df)) :
        /\ call' = [op |-> "multi", contaminacion |-> c, plot |-> plot]
        /\ \E run \in {MultiRun(df, c, plot, outliers)} :
              /\ ret' = run.ret
              /\ locals' = run.locals
        /\ UNCHANGED df

-----------------------------------------------------------------------------
(* summary *)

\* the configurations summary is called with: iqr_multiple (in halves),
\* sd_multiple, isolation_outlier_fraction and the generalized_esd mapping
SummaryConfigs ==
    [iqr_multiple2 : {3}, sd_multiple : {3},
     outlier_fraction : {Str("auto"), Num(60)},
     max_anomalies : 0..MaxAnomalies, alpha100 : {5}, hybrid : BOOLEAN]

\* the labels the univariate models predict within summary: no anomaly, one
\* anomaly, or every row an anomaly
SummaryLabels(n) ==
    { l \in Labels(n) : Cardinality({i \in 1..n : l[i] = -1}) \in {0, 1, n} }

CountCells(cells, v) == Cardinality({i \in 1..Len(cells) : cells[i] = v})

\* mask[col].mean() * 100, as a fraction num/den: the mean of a column skips
\* its null cells; den = 0 stands for nan
Percentage(cells) ==
    [num |-> 100 * CountCells(cells, "True"),
     den |-> Len(cells) - CountCells(cells, "NaN")]

\* mask[col][mask[col] == True].index
RECURSIVE FlaggedKeys(_, _, _)
FlaggedKeys(index, cells, k) ==
    IF k > Len(cells) THEN <<>>
    ELSE IF cells[k] = "True"
    THEN <<index[k]>> \o FlaggedKeys(index, cells, k + 1)
    ELSE FlaggedKeys(index, cells, k + 1)

ReportEntry(mask, j) ==
    [percentage |-> Percentage(mask.columns[j].values),
     INDEX |-> FlaggedKeys(mask.index, mask.columns[j].values, 1)]

\* summary_: per numeric column, the two rows ('% Percentage Outliers',
\* 'INDEX') of the four method columns
Report(d, masks) ==
    [j \in 1..Len(numeric_cols(d)) |->
        [name |-> numeric_cols(d)[j].name,
         IQR |-> ReportEntry(masks[1], j),
         STD |-> ReportEntry(masks[2], j),
         ISO |-> ReportEntry(masks[3], j),
         ESD |-> ReportEntry(masks[4], j)]]

\* the four detector calls in the order of the code, then the report; an
\* error of a detector ends the call
SummaryRun(d, cfg, iso, esd) ==
    LET outliers_iqr == IqrMask(d, cfg.iqr_multiple2)
        outliers_sd == SdMask(d, cfg.sd_multiple)
        masks == <<outliers_iqr, outliers_sd, iso.ret.mask, esd.ret.mask>>
    IN  IF iso.ret.kind = "error"
        THEN [ret |-> iso.ret, locals |-> iso.locals, df |-> d]
        ELSE IF esd.ret.kind = "error"
        THEN [ret |-> esd.ret,
              locals |-> [iso.locals EXCEPT !.esd = esd.locals.esd],
              df |-> esd.df]
        ELSE [ret |-> [kind |-> "report", error |-> "", mask |-> NoMask,
                       report |-> Report(d, masks)],
              locals |-> [iso.locals EXCEPT !.esd = esd.locals.esd,
                                            !.masks = masks],
              df |-> esd.df]

summary ==
    /\ Idle
    /\ \E cfg \in SummaryConfigs :
       \E loops \in EsdLoops(df, cfg.max_anomalies, cfg.alpha100, cfg.hybrid) :
       \E esd \in {EsdRun(df, loops)} :
       \E pred \in [1..Len(numeric_cols(df)) -> SummaryLabels(NRows(df))] :
       \E iso \in {IsoRun(df, cfg.outlier_fraction, pred)} :
       \E run \in {SummaryRun(df, cfg, iso, esd)} :
        /\ call' = [op |-> "summary", cfg |-> cfg]
        /\ ret' = run.ret
        /\ locals' = run.locals
        /\ df' = run.df

-----------------------------------------------------------------------------

\* the caller is done with the result of a call; the next call starts afresh
Return ==
    /\ ~Idle
    /\ call' = NoCall
    /\ ret' = NoResult
    /\ locals' = NoLocals
    /\ UNCHANGED df

Init ==
    /\ df \in Tables
    /\ call = NoCall
    /\ ret = NoResult
    /\ locals = NoLocals

Next ==
    \/ detect_outlier_sd
    \/ detect_outlier_iqr
    \/ detect_outlier_isolation_forest
    \/ detect_outlier_generalized_esd
    \/ detect_outlier_multivariable_isolation_forest
    \/ summary
    \/ Return

Spec == Init /\ [][Next]_vars

-----------------------------------------------------------------------------
(* Properties *)

\* the errors that reject a configuration
ValidationErrors == {"AssertionError", "ValidationError"}

Rejected == ret.kind = "error" /\ ret.error \in ValidationErrors

FlaggedPositions(cells) == {i \in 1..Len(cells) : cells[i] = "True"}

\* the k-th smallest element of a set of positions
NthOf(S, k) == CHOOSE p \in S : Cardinality({q \in S : q < p}) = k - 1

\* the last iteration (counted from 1) at which the test passed, 0 if none
LastPass(passed) ==
    IF \E k \in 1..Len(passed) : passed[k]
    THEN CHOOSE k \in 1..Len(passed) :
            passed[k] /\ \A l \in (k + 1)..Len(passed) : ~passed[l]
    ELSE 0

\* the configurations of the Generalized ESD the specification allows:
\* max_anomalies < n/2 and alpha in (0,1)
EsdConfigAllowed(max_anomalies, alpha100) ==
    2 * max_anomalies < NRows(df) /\ 0 < alpha100 /\ alpha100 < 100

\* C1: detect_outlier_generalized_esd rejects the call with a validation
\* error, before any statistic is computed and without returning a mask,
\* whenever max_anomalies >= n/2, n the number of rows.
C1_EsdRejectsHalfOrMore ==
    (call.op = "esd" /\ 2 * call.max_anomalies >= NRows(df)) =>
        (Rejected /\ locals.esd = <<>>)

\* C2: the mask of detect_outlier_generalized_esd flags exactly the candidate
\* positions recorded at iterations 0..L, L the highest iteration at which
\* the test passed, and nothing when it passed at no iteration; when it
\* passed at iteration 0 only, exactly that candidate is flagged.  (Stated
\* for the configurations the specification allows.)
C2_EsdFlagsThroughLastPass ==
    (/\ call.op = "esd"
     /\ EsdConfigAllowed(call.max_anomalies, call.alpha100)
     /\ ret.kind = "mask") =>
        \A j \in 1..Len(ret.mask.columns) :
            FlaggedPositions(ret.mask.columns[j].values) =
                { locals.esd[j].test_statistics[k] :
                    k \in 1..LastPass(locals.esd[j].passed) }

\* C3: the mask every detector returns has exactly the row index of the
\* input (same keys, same order, same length) and every cell is a boolean,
\* never null.  (Stated, for the Generalized ESD, for the configurations the
\* specification allows.)
C3_MaskAlignedAndBoolean ==
    (/\ ret.kind = "mask"
     /\ call.op = "esd" => EsdConfigAllowed(call.max_anomalies, call.alpha100)) =>
        /\ ret.mask.index = df.index
        /\ \A j \in 1..Len(ret.mask.columns) :
            /\ Len(ret.mask.columns[j].values) = NRows(df)
            /\ \A i \in 1..NRows(df) :
                ret.mask.columns[j].values[i] \in {"True", "False"}

\* the k-th smallest value (k from 1) of a column
OrderStatistic(ts, k) ==
    CHOOSE v \in {ts[i] : i \in 1..Len(ts)} :
        /\ Cardinality({i \in 1..Len(ts) : ts[i] < v}) < k
        /\ Cardinality({i \in 1..Len(ts) : ts[i] <= v}) >= k

\* 4 times the (25*q4)-th percentile under linear interpolation: the value at
\* rank 1 + (n-1)*q4/4, between the two order statistics around it
Percentile4(ts, q4) ==
    LET h == (Len(ts) - 1) * q4
        lo == OrderStatistic(ts, h \div 4 + 1)
        hi == OrderStatistic(ts, IF h % 4 = 0 THEN h \div 4 + 1 ELSE h \div 4 + 2)
    IN  (4 - (h % 4)) * lo + (h % 4) * hi

IsConstant(ts) == \A i \in 1..Len(ts) : ts[i] = ts[1]

\* C5: detect_outlier_sd returns an all-false mask for every column whose
\* standard deviation is 0, for every sd_multiple, and raises no error.
C5_SdConstantColumnAllFalse ==
    call.op = "sd" =>
        /\ ret.kind = "mask"
        /\ \A j \in 1..Len(numeric_cols(df)) :
            IsConstant(numeric_cols(df)[j].values) =>
                \A i \in 1..NRows(df) :
                    ret.mask.columns[j].values[i] = "False"

C5_Witness ==
    /\ call.op = "sd"
    /\ call.sd_multiple = 0
    /\ NRows(df) = 3
    /\ \E j \in 1..Len(numeric_cols(df)) :
        /\ IsConstant(numeric_cols(df)[j].values)
        /\ ret.mask.columns[j].values = <<"False", "False", "False">>

\* C6: detect_outlier_isolation_forest accepts outlier_fraction only when it
\* is a number in [0, 0.5] or the string "auto"; for any other string or
\* number it fails with a validation error before any column is scaled or
\* any model is fitted, and returns no mask.
C6_IsoFractionValidated ==
    call.op = "iso" =>
        LET f == call.outlier_fraction
            ok == \/ f.kind = "str" /\ f.s = "auto"
                  \/ f.kind = "num" /\ 0 <= f.x100 /\ f.x100 <= 50
        IN  IF ok THEN ~Rejected
            ELSE /\ Rejected
                 /\ ret.mask = NoMask
                 /\ locals.scaled = 0
                 /\ locals.fitted = 0

C6_Witness ==
    /\ call.op = "iso"
    /\ call.outlier_fraction = Num(60)
    /\ Rejected
    /\ locals.fitted = 0

\* the entry of a report row for the k-th method
MethodEntry(row, k) ==
    CASE k = 1 -> row.IQR
      [] k = 2 -> row.STD
      [] k = 3 -> row.ISO
      [] k = 4 -> row.ESD

\* C7: in the report of summary, for every numeric column and every method,
\* the percentage equals 100 * (rows flagged in that method's mask for that
\* column) / (total rows), and INDEX is exactly the row keys where that mask
\* is true, in row order.  (Stated for the Generalized ESD configurations
\* the specification allows.)
C7_ReportMatchesMasks ==
    (/\ ret.kind = "report"
     /\ EsdConfigAllowed(call.cfg.max_anomalies, call.cfg.alpha100)) =>
        \A j \in 1..Len(ret.report) : \A k \in 1..4 :
            LET entry == MethodEntry(ret.report[j], k)
                flagged == FlaggedPositions(locals.masks[k].columns[j].values)
            IN  /\ entry.percentage.den > 0
                /\ entry.percentage.num * NRows(df) =
                        100 * Cardinality(flagged) * entry.percentage.den
                /\ Len(entry.INDEX) = Cardinality(flagged)
                /\ \A p \in 1..Len(entry.INDEX) :
                        entry.INDEX[p] = df.index[NthOf(flagged, p)]

\* C8: no detector call and no summary call changes the input dataset: every
\* cell, column and row key of the caller's table is as it was before.
C8_InputUnchanged == [][df' = df]_vars

C8_Witness ==
    /\ call.op \in {"esd", "summary"}
    /\ Len(locals.esd) > 0
    /\ Len(locals.esd[1].test_statistics) = MaxAnomalies
    /\ \E i \in 1..NRows(df) :
        locals.esd[1].ts.mask[i] /\ locals.esd[1].ts.data[i] # 0

\* the PCA behind plot=True can be computed
PlotPossible ==
    NRows(df) >= PcaComponents /\ Len(numeric_cols(df)) >= PcaComponents

\* C9: for every labelling the fitted model returns (also one with no row
\* labelled anomalous), detect_outlier_multivariable_isolation_forest returns
\* a mask with a single boolean column, one flag per row, true exactly for
\* the rows labelled -1.
C9_MultiMaskFollowsLabels ==
    (call.op = "multi" /\ locals.fitted = 1 /\ (call.plot => PlotPossible)) =>
        /\ ret.kind = "mask"
        /\ Len(ret.mask.columns) = 1
        /\ Len(ret.mask.columns[1].values) = NRows(df)
        /\ \A i \in 1..NRows(df) :
            ret.mask.columns[1].values[i] = Bool(locals.pred[1][i] = -1)

\* C10: detect_outlier_generalized_esd fails with a validation error, raised
\* before any computation, whenever alpha is outside the open interval (0,1).
C10_EsdRejectsAlphaOutsideUnitInterval ==
    (call.op = "esd" /\ (call.alpha100 <= 0 \/ call.alpha100 >= 100)) =>
        (Rejected /\ locals.esd = <<>>)

\* the candidates recorded before iteration k (counted from 1)
EarlierCandidates(st, k) == {st.test_statistics[l] : l \in 1..(k - 1)}

\* C11: in detect_outlier_generalized_esd, for every column (constant columns
\* and columns with zero dispersion among the remaining values included) and
\* every iteration, the candidate is a position not excluded at an earlier
\* iteration: the recorded candidates are pairwise distinct, the active set
\* shrinks by exactly one per iteration, and the size passed to the
\* critical-value computation is the number of currently active values.
\* (Stated for the configurations the specification allows.)
C11_EsdCandidatesDistinct ==
    (/\ call.op = "esd"
     /\ EsdConfigAllowed(call.max_anomalies, call.alpha100)
     /\ ret.kind = "mask") =>
        \A j \in 1..Len(locals.esd) :
            LET st == locals.esd[j]
            IN  /\ \A k \in 1..Len(st.test_statistics) :
                    /\ st.test_statistics[k] \notin EarlierCandidates(st, k)
                    /\ st.sizes[k] =
                         NRows(df) - Cardinality(EarlierCandidates(st, k))
                /\ Cardinality(Active(st.ts)) =
                     NRows(df) - Len(st.test_statistics)

\* C12: in detect_outlier_iqr, for every column whose interquartile range is
\* 0 (Q1 = Q3) and every iqr_multiple, a value is flagged if and only if it
\* differs from the column's median; no error is raised and the case is not
\* turned into an all-false mask.
C12_IqrZeroRangeFlagsNonMedian ==
    call.op = "iqr" =>
        /\ ret.kind = "mask"
        /\ \A j \in 1..Len(numeric_cols(df)) :
            LET ts == numeric_cols(df)[j].values
            IN  Percentile4(ts, 1) = Percentile4(ts, 3) =>
                    \A i \in 1..Len(ts) :
                        (ret.mask.columns[j].values[i] = "True") <=>
                            4 * ts[i] # Percentile4(ts, 2)

C12_Witness ==
    /\ call.op = "iqr"
    /\ ret.kind = "mask"
    /\ \E j \in 1..Len(numeric_cols(df)) :
        LET ts == numeric_cols(df)[j].values
        IN  /\ Percentile4(ts, 1) = Percentile4(ts, 3)
            /\ \E i \in 1..Len(ts) : ret.mask.columns[j].values[i] = "True"
            /\ \E i \in 1..Len(ts) : ret.mask.columns[j].values[i] = "False"

\* the working array of a column before iteration k (counted from 1): the
\* column's values, the earlier candidates masked
ArrayBefore(values, st, k) ==
    [data |-> values,
     mask |-> [i \in 1..Len(values) |-> i \in EarlierCandidates(st, k)]]

\* the active positions that share the largest score before iteration k
TopScored(values, st, k, hybrid) ==
    LET ts == ArrayBefore(values, st, k)
        dev == Deviations(ts, hybrid)
    IN  IF ScoresMasked(ts, hybrid, dev) THEN {}
        ELSE {i \in Active(ts) : \A j \in Active(ts) : dev[j] <= dev[i]}

====
